---- MODULE Spec2Model ----
(***************************************************************************)
(* Model of src/index.js: cloneRepository (the repository mirrorer) and    *)
(* cloneBranchToFolder (the branch materializer), run over a file system   *)
(* and a git backend.  Strings are sequences of one-character strings, so  *)
(* that sanitizeFolderName, the parse of the ls-remote listing and the     *)
(* substring test remotes.includes('origin') are computed as the code      *)
(* computes them.  Every await of the code is one action; a backend call   *)
(* either succeeds or throws.                                              *)
(***************************************************************************)
EXTENDS Integers, Sequences, FiniteSets, TLC

\* ------------------------------------------------------------------ bounds
\* Number of successive runs of the program over the same file system.
MaxRuns == 2
\* Length of the branch names sanitizeFolderName is applied to.
MaxNameLen == 2
\* Number of lines of the listings the parse is applied to.
MaxLines == 2

\* ----------------------------------------------------------------- strings
NL == "\n"
TAB == "\t"
\* The value undefined of line.split('\t')[1]: no string of characters.
Undefined == <<"undefined">>

Origin == <<"o", "r", "i", "g", "i", "n">>
RefsHeads == <<"r", "e", "f", "s", "/", "h", "e", "a", "d", "s", "/">>
RefsTags == <<"r", "e", "f", "s", "/", "t", "a", "g", "s", "/">>
Main == <<"m", "a", "i", "n">>
Master == <<"m", "a", "s", "t", "e", "r">>

\* String.prototype.includes / startsWith
Includes(text, pat) ==
  \E i \in 1..(Len(text) - Len(pat) + 1) : SubSeq(text, i, i + Len(pat) - 1) = pat

StartsWith(text, pat) ==
  Len(text) >= Len(pat) /\ SubSeq(text, 1, Len(pat)) = pat

\* Array.prototype.includes
ArrayIncludes(arr, x) == \E i \in 1..Len(arr) : arr[i] = x

\* String.prototype.replace(pat, '') with a string pattern: the first
\* occurrence only.
ReplaceFirst(text, pat) ==
  IF Includes(text, pat)
  THEN LET i == CHOOSE k \in 1..(Len(text) - Len(pat) + 1) :
                  /\ SubSeq(text, k, k + Len(pat) - 1) = pat
                  /\ \A j \in 1..(k - 1) : SubSeq(text, j, j + Len(pat) - 1) # pat
       IN SubSeq(text, 1, i - 1) \o SubSeq(text, i + Len(pat), Len(text))
  ELSE text

\* String.prototype.split(sep) for a one-character separator.
RECURSIVE Split(_, _)
Split(text, sep) ==
  IF \E i \in 1..Len(text) : text[i] = sep
  THEN LET i == CHOOSE k \in 1..Len(text) :
                  text[k] = sep /\ \A j \in 1..(k - 1) : text[j] # sep
       IN <<SubSeq(text, 1, i - 1)>> \o Split(SubSeq(text, i + 1, Len(text)), sep)
  ELSE <<text>>

\* ------------------------------------------------- sanitizeFolderName
\* Mutant: the backslash of the character class is lost.
InvalidCharsNoBackslash == {"<", ">", ":", "\"", "/", "|", "?", "*"}

InvalidChars == {"<", ">", ":", "\"", "/", "\\", "|", "?", "*"}

sanitizeFolderName(name) ==
  [i \in 1..Len(name) |-> IF name[i] \in InvalidChars THEN "_" ELSE name[i]]

\* path.join(parent, name) for a name without separators: an empty name
\* joins to the parent itself.
PathJoin(parent, name) == IF name = <<>> THEN parent ELSE Append(parent, name)

\* --------------------------------------------------------- the inputs
Dev == <<"d", "e", "v">>
FeatSlash == <<"f", "/", "a">>
FeatUnder == <<"f", "_", "a">>
Hash == <<"h">>
TagV1 == <<"v", "1">>

\* One line of the output of ls-remote --refs: <hash> TAB <ref> NEWLINE
Line(hash, ref) == hash \o <<TAB>> \o ref \o <<NL>>
Head_(b) == Line(Hash, RefsHeads \o b)
Tag_(t) == Line(Hash, RefsTags \o t)

\* The raw listings a remote answers with; the remote keeps its branches
\* over the runs of one behaviour.
Listings ==
  { <<>>,
    Tag_(TagV1),
    Head_(Dev),
    Head_(Dev) \o Head_(Main) \o Tag_(TagV1) \o Head_(FeatSlash),
    Head_(Dev) \o Head_(Master),
    Head_(Master) \o Head_(Main),
    Head_(FeatSlash) \o Head_(FeatUnder) }

Urls == {"u1"}

\* parentFolderPath and repoFolderName of the prompt
\* (a path is the sequence of its components)
ParentFolder == <<<<"g", "c">>>>
RepoName == <<"r", "1">>

\* ------------------------------------------ the parse of the listing
\* line => line.split('\t')[1]
SecondField(line) ==
  LET f == Split(line, TAB) IN IF Len(f) >= 2 THEN f[2] ELSE Undefined

\* Mutant: 'refs/heads/' anywhere in the ref.
IsHeadAnywhere(branch) ==
  branch # Undefined /\ branch # <<>> /\ Includes(branch, RefsHeads)

\* branch => branch && branch.startsWith('refs/heads/')
IsHead(branch) ==
  branch # Undefined /\ branch # <<>> /\ StartsWith(branch, RefsHeads)

\* branch => branch.replace('refs/heads/', '')
StripHead(branch) == ReplaceFirst(branch, RefsHeads)

\* remoteBranchNames of cloneRepository
ParseBranches(text) ==
  LET lines == Split(text, NL)
      refs == [i \in 1..Len(lines) |-> SecondField(lines[i])]
      heads == SelectSeq(refs, IsHead)
  IN [i \in 1..Len(heads) |-> StripHead(heads[i])]

\* Mutants of the selection: 'master' preferred to 'main'; a loop that stops
\* one branch early.
SelectionMasterFirst(names, cloneAllBranches) ==
  IF cloneAllBranches
  THEN names
  ELSE <<IF ArrayIncludes(names, Master) THEN Master ELSE Main>>
SelectionStopsEarly(names, cloneAllBranches) ==
  IF cloneAllBranches
  THEN SubSeq(names, 1, Len(names) - 1)
  ELSE <<IF ArrayIncludes(names, Main) THEN Main ELSE Master>>

\* The branches cloneRepository hands to cloneBranchToFolder, in order.
Selection(names, cloneAllBranches) ==
  IF cloneAllBranches
  THEN names
  ELSE <<IF ArrayIncludes(names, Main) THEN Main ELSE Master>>

\* ------------------------------------------------------ the file system
BranchUniverse == {Main, Master, Dev, FeatSlash, FeatUnder}

repoFolderPathOf(parent, name) == PathJoin(parent, name)
branchFolderPathOf(parent, branchName) == PathJoin(parent, sanitizeFolderName(branchName))

RepoPath == repoFolderPathOf(ParentFolder, RepoName)
BranchPaths == {branchFolderPathOf(RepoPath, b) : b \in BranchUniverse}
Paths == {RepoPath} \cup BranchPaths

NoHead == <<>>
Absent == [exists |-> FALSE, git |-> FALSE, remotes |-> {}, fetched |-> FALSE, head |-> NoHead]
EmptyDir == [Absent EXCEPT !.exists = TRUE]

\* fs.mkdirSync(path, { recursive: true }): an existing directory is left as
\* it is.
MkdirSync(f) == IF f.exists THEN f ELSE EmptyDir

\* ---------------------------------------------------- the git backend
\* git init: creates the repository, or leaves an existing one as it is.
GitInit(f) == [f EXCEPT !.git = TRUE]

\* git remote show: the names of the remotes, one per line.
RECURSIVE RemoteShow(_)
RemoteShow(remotes) ==
  IF remotes = {} THEN <<>>
  ELSE LET r == CHOOSE x \in remotes : TRUE
       IN r.name \o <<NL>> \o RemoteShow(remotes \ {r})

HasRemote(f, name) == \E r \in f.remotes : r.name = name

\* git remote set-url <name> <url>: fails when there is no such remote.
CanSetUrl(f, name) == f.git /\ HasRemote(f, name)
GitSetUrl(f, name, url) ==
  [f EXCEPT !.remotes = {IF r.name = name THEN [r EXCEPT !.url = url] ELSE r : r \in f.remotes}]

\* git remote add <name> <url>: fails when the remote exists.
CanAdd(f, name) == f.git /\ ~HasRemote(f, name)
GitAdd(f, name, url) == [f EXCEPT !.remotes = f.remotes \cup {[name |-> name, url |-> url]}]

\* git fetch: fetches from origin.
CanFetch(f) == f.git /\ HasRemote(f, Origin)
GitFetch(f) == [f EXCEPT !.fetched = TRUE]

\* git checkout <branch>: the branch must be one that was fetched.
CanCheckout(f, branchName, heads) == f.git /\ f.fetched /\ ArrayIncludes(heads, branchName)
\* Mutant: the sanitized name is checked out.
GitCheckoutSanitized(f, branchName) == [f EXCEPT !.head = sanitizeFolderName(branchName)]

GitCheckout(f, branchName) == [f EXCEPT !.head = branchName]

\* ------------------------------------------------------------ the state
VARIABLES
  fs,          \* the file system: path -> folder
  gitCwd,      \* the working directory of the process's one simple-git handle
  pc,          \* where the run is: the await it is suspended at
  runs,        \* how many runs were started
  args,        \* repoUrl and cloneAllBranches of the current run
  remoteText,  \* the remote: what it answers to ls-remote --refs
  remotes,     \* the local remotes (output of git remote show)
  names,       \* remoteBranchNames
  todo,        \* the branches cloneRepository calls cloneBranchToFolder for
  idx,         \* the position in todo
  promise,     \* the promise of cloneRepository
  bPromise,    \* the promise of the current cloneBranchToFolder
  attempts,    \* history: branchName of every cloneBranchToFolder call of the run
  outcomes,    \* history: how each of them ended
  calls,       \* history: file system writes and backend calls of the run
  log,         \* history: the logger's entries of the run
  hist,        \* history: path -> the steps every materialization, of any run, took on it
  fn,          \* the function applied on its own: "sanitize", "parse" or "none"
  given,       \* what the input was made from
  input,       \* its input
  output,      \* its result
  applied      \* whether it was applied

pure == <<fn, given, input, output, applied>>
vars == <<fs, gitCwd, pc, runs, args, remoteText, remotes, names, todo, idx,
          promise, bPromise, attempts, outcomes, calls, log, hist, pure>>

NoArgs == [repoUrl |-> "", cloneAllBranches |-> FALSE]
NoCwd == <<>>

\* Folders that exist before the first run.
OldUrl == "u0"
Origin2 == Origin \o <<"2">>
OldRepo == [EmptyDir EXCEPT !.git = TRUE, !.remotes = {[name |-> Origin, url |-> OldUrl]}]
PreRepoFolders ==
  { EmptyDir,
    OldRepo,
    [EmptyDir EXCEPT !.git = TRUE, !.remotes = {[name |-> Origin2, url |-> OldUrl]}] }
PreBranchFolders ==
  { EmptyDir,
    [exists |-> TRUE, git |-> TRUE, remotes |-> {[name |-> Origin, url |-> OldUrl]},
     fetched |-> TRUE, head |-> Dev] }

InitFs ==
  {[p \in Paths |-> Absent]}
  \cup {[p \in Paths |-> IF p = RepoPath THEN r ELSE Absent] : r \in PreRepoFolders}
  \cup {[p \in Paths |-> IF p = RepoPath THEN OldRepo ELSE IF p = q THEN b ELSE Absent] :
          q \in BranchPaths, b \in PreBranchFolders}

NoFunction ==
  /\ fn = "none"
  /\ given = <<>>
  /\ input = <<>>
  /\ output = <<>>
  /\ applied = FALSE

Init ==
  /\ NoFunction
  /\ fs \in InitFs
  /\ gitCwd = NoCwd
  /\ pc = "idle"
  /\ runs = 0
  /\ args = NoArgs
  /\ remoteText \in Listings
  /\ remotes = <<>>
  /\ names = <<>>
  /\ todo = <<>>
  /\ idx = 0
  /\ promise = "none"
  /\ bPromise = "none"
  /\ attempts = <<>>
  /\ outcomes = <<>>
  /\ calls = <<>>
  /\ log = <<>>
  /\ hist = [p \in Paths |-> <<>>]

\* --------------------------------------------------- the catch blocks
\* Mutants: a catch block that throws the error again.
CatchBranchRethrows == "rejected"
CatchRepoRethrows == "rejected"

\* catch (error) { logger.error(...) } of cloneBranchToFolder: the promise
\* resolves.
CatchBranch == "resolved"
\* catch (error) { logger.error(...) } of cloneRepository
CatchRepo == "resolved"

Step(op, ok) == [op |-> op, ok |-> ok]
Entry(level, msg) == [level |-> level, msg |-> msg]
Call(op, path, n, ok) == [op |-> op, path |-> path, att |-> n, ok |-> ok]

\* Mutant: no existence check.
ExistsSyncNever(files, path) == FALSE

\* fs.existsSync
ExistsSync(files, path) == files[path].exists

\* The catch of cloneRepository, reached from any of its awaits.
RepoFails ==
  /\ log' = Append(log, Entry("error", "Error cloning repository"))
  /\ promise' = CatchRepo
  /\ pc' = "done"

\* ------------------------------------------------------ cloneRepository
\* Lines 73-85: the call, the repository folder, up to the await of init.
Start(repoUrl, cloneAllBranches) ==
  /\ pc \in {"idle", "done"}
  /\ UNCHANGED pure
  /\ runs < MaxRuns
  /\ runs' = runs + 1
  /\ args' = [repoUrl |-> repoUrl, cloneAllBranches |-> cloneAllBranches]
  /\ UNCHANGED remoteText
  /\ remotes' = <<>>
  /\ names' = <<>>
  /\ todo' = <<>>
  /\ idx' = 0
  /\ bPromise' = "none"
  /\ attempts' = <<>>
  /\ outcomes' = <<>>
  /\ gitCwd' = NoCwd
  /\ UNCHANGED hist
  /\ IF ExistsSync(fs, RepoPath)
     THEN /\ fs' = fs
          /\ calls' = <<>>
          /\ log' = <<Entry("info", "Initializing git repository in folder")>>
          /\ promise' = "pending"
          /\ pc' = "r_init"
     ELSE \E ok \in BOOLEAN :
            /\ calls' = <<Call("mkdir", RepoPath, 0, ok)>>
            /\ IF ok
               THEN /\ fs' = [fs EXCEPT ![RepoPath] = MkdirSync(fs[RepoPath])]
                    /\ log' = <<Entry("info", "The folder does not exist. Creating it"),
                                Entry("info", "Initializing git repository in folder")>>
                    /\ promise' = "pending"
                    /\ pc' = "r_init"
               ELSE /\ fs' = fs
                    /\ log' = <<Entry("info", "The folder does not exist. Creating it"),
                                Entry("error", "Error cloning repository")>>
                    /\ promise' = CatchRepo
                    /\ pc' = "done"

\* Mutant: a failed init of the repository folder is ignored.
RepoInitIgnoresFailure(ok) ==
  /\ pc = "r_init"
  /\ UNCHANGED pure
  /\ gitCwd' = RepoPath
  /\ calls' = Append(calls, Call("init", gitCwd', 0, ok))
  /\ fs' = IF ok THEN [fs EXCEPT ![gitCwd'] = GitInit(fs[gitCwd'])] ELSE fs
  /\ pc' = "r_show"
  /\ UNCHANGED <<log, promise>>
  /\ UNCHANGED <<runs, args, remoteText, remotes, names, todo, idx, bPromise,
                 attempts, outcomes, hist>>

\* Line 85: await git.cwd(repoFolderPath).init()
RepoInit(ok) ==
  /\ pc = "r_init"
  /\ UNCHANGED pure
  /\ gitCwd' = RepoPath
  /\ calls' = Append(calls, Call("init", gitCwd', 0, ok))
  /\ IF ok
     THEN /\ fs' = [fs EXCEPT ![gitCwd'] = GitInit(fs[gitCwd'])]
          /\ pc' = "r_show"
          /\ UNCHANGED <<log, promise>>
     ELSE /\ fs' = fs
          /\ RepoFails
  /\ UNCHANGED <<runs, args, remoteText, remotes, names, todo, idx, bPromise,
                 attempts, outcomes, hist>>

\* Line 88: const remotes = await git.cwd(repoFolderPath).raw(['remote', 'show'])
RepoRemoteShow(ok) ==
  /\ pc = "r_show"
  /\ UNCHANGED pure
  /\ gitCwd' = RepoPath
  /\ calls' = Append(calls, Call("remote show", gitCwd', 0, ok))
  /\ IF ok
     THEN /\ remotes' = RemoteShow(fs[gitCwd'].remotes)
          /\ pc' = "r_cfg"
          /\ UNCHANGED <<log, promise>>
     ELSE /\ remotes' = remotes
          /\ RepoFails
  /\ UNCHANGED <<fs, runs, args, remoteText, names, todo, idx, bPromise,
                 attempts, outcomes, hist>>

\* remotes.includes('origin')
OriginListed(text) == Includes(text, Origin)

\* Lines 89-97: set-url when 'origin' is listed, add otherwise
RepoRemoteConfig(ok) ==
  /\ pc = "r_cfg"
  /\ UNCHANGED pure
  /\ gitCwd' = RepoPath
  /\ LET f == fs[gitCwd']
         setUrl == OriginListed(remotes)
         can == IF setUrl THEN CanSetUrl(f, Origin) ELSE CanAdd(f, Origin)
     IN /\ calls' = Append(calls, Call(IF setUrl THEN "set-url" ELSE "add", gitCwd', 0, ok))
        /\ ok => can
        /\ IF ok
           THEN /\ fs' = [fs EXCEPT ![gitCwd'] =
                            IF setUrl THEN GitSetUrl(f, Origin, args.repoUrl)
                                      ELSE GitAdd(f, Origin, args.repoUrl)]
                /\ log' = log \o <<Entry("info",
                            IF setUrl THEN "Remote 'origin' exists, updating remote URL"
                                      ELSE "Adding new remote 'origin'"),
                                   Entry("info", "Fetching remote branch information")>>
                /\ pc' = "r_ls"
                /\ UNCHANGED promise
           ELSE /\ fs' = fs
                /\ log' = log \o <<Entry("info",
                            IF setUrl THEN "Remote 'origin' exists, updating remote URL"
                                      ELSE "Adding new remote 'origin'"),
                                   Entry("error", "Error cloning repository")>>
                /\ promise' = CatchRepo
                /\ pc' = "done"
  /\ UNCHANGED <<runs, args, remoteText, remotes, names, todo, idx, bPromise,
                 attempts, outcomes, hist>>

\* !remoteBranches: the empty string is falsy
NoData(text) == text = <<>>
\* Mutant: the empty list of branches is not noticed.
NoBranchesNever(branchNames) == FALSE

\* remoteBranchNames.length === 0
NoBranches(branchNames) == Len(branchNames) = 0

\* Lines 101-122/128: await ls-remote, the two soft failures, the parse and
\* the selection, up to the first call of cloneBranchToFolder.
LsRemote(ok) ==
  /\ pc = "r_ls"
  /\ UNCHANGED pure
  /\ gitCwd' = RepoPath
  /\ calls' = Append(calls, Call("ls-remote", gitCwd', 0, ok))
  /\ IF ~ok
     THEN /\ RepoFails
          /\ UNCHANGED <<names, todo, idx>>
     ELSE IF NoData(remoteText)
     THEN /\ log' = Append(log, Entry("warn", "Could not fetch branch information"))
          /\ promise' = "resolved"
          /\ pc' = "done"
          /\ UNCHANGED <<names, todo, idx>>
     ELSE IF NoBranches(ParseBranches(remoteText))
     THEN /\ names' = ParseBranches(remoteText)
          /\ log' = Append(log, Entry("warn", "No remote branches found"))
          /\ promise' = "resolved"
          /\ pc' = "done"
          /\ UNCHANGED <<todo, idx>>
     ELSE /\ names' = ParseBranches(remoteText)
          /\ todo' = Selection(names', args.cloneAllBranches)
          /\ log' = Append(log, Entry("info", "Remote branches"))
          /\ IF Len(todo') = 0
             THEN idx' = 0 /\ promise' = "resolved" /\ pc' = "done"
             ELSE idx' = 1 /\ promise' = promise /\ pc' = "call"
  /\ UNCHANGED <<fs, runs, args, remoteText, remotes, bPromise, attempts, outcomes, hist>>

\* ---------------------------------------------------- cloneBranchToFolder
branchName == todo[idx]
branchFolderPath == branchFolderPathOf(RepoPath, branchName)
att == Len(attempts)

\* The catch of cloneBranchToFolder, reached from any of its steps.
BranchFails ==
  /\ outcomes' = [outcomes EXCEPT ![Len(outcomes)] = "Failed"]
  /\ log' = Append(log, Entry("error", "Error cloning branch"))
  /\ bPromise' = CatchBranch
  /\ pc' = "b_await"

\* Mutant: cloneBranchToFolder is called without await, so the loop goes on
\* to the next branch as soon as the subfolder is created.
CallBranchNoAwait ==
  /\ pc = "call"
  /\ UNCHANGED pure
  /\ attempts' = Append(attempts, branchName)
  /\ IF ExistsSync(fs, branchFolderPath)
     THEN /\ log' = Append(log, Entry("info", "The subfolder already exists. Skipping branch cloning"))
          /\ outcomes' = Append(outcomes, "Skipped")
          /\ bPromise' = "resolved"
          /\ pc' = "b_await"
          /\ UNCHANGED <<fs, calls, hist, idx>>
     ELSE /\ calls' = Append(calls, Call("mkdir", branchFolderPath, Len(attempts'), TRUE))
          /\ hist' = [hist EXCEPT ![branchFolderPath] = Append(@, Step("mkdir", TRUE))]
          /\ fs' = [fs EXCEPT ![branchFolderPath] = MkdirSync(fs[branchFolderPath])]
          /\ log' = log \o <<Entry("info", "Created subfolder"),
                             Entry("info", "Initializing git repository in")>>
          /\ outcomes' = Append(outcomes, "Running")
          /\ bPromise' = "pending"
          /\ IF idx < Len(todo)
             THEN idx' = idx + 1 /\ pc' = "call"
             ELSE idx' = idx /\ pc' = "b_init"
  /\ UNCHANGED <<gitCwd, runs, args, remoteText, remotes, names, todo, promise>>

\* Lines 124/129 and 28-45: the call, the existence check, the new
\* subfolder, up to the await of init.
CallBranch ==
  /\ pc = "call"
  /\ UNCHANGED pure
  /\ attempts' = Append(attempts, branchName)
  /\ IF ExistsSync(fs, branchFolderPath)
     THEN /\ log' = Append(log, Entry("info", "The subfolder already exists. Skipping branch cloning"))
          /\ outcomes' = Append(outcomes, "Skipped")
          /\ bPromise' = "resolved"
          /\ pc' = "b_await"
          /\ UNCHANGED <<fs, calls, hist>>
     ELSE \E ok \in BOOLEAN :
            /\ calls' = Append(calls, Call("mkdir", branchFolderPath, Len(attempts'), ok))
            /\ hist' = [hist EXCEPT ![branchFolderPath] = Append(@, Step("mkdir", ok))]
            /\ IF ok
               THEN /\ fs' = [fs EXCEPT ![branchFolderPath] = MkdirSync(fs[branchFolderPath])]
                    /\ log' = log \o <<Entry("info", "Created subfolder"),
                                       Entry("info", "Initializing git repository in")>>
                    /\ outcomes' = Append(outcomes, "Running")
                    /\ bPromise' = "pending"
                    /\ pc' = "b_init"
               ELSE /\ fs' = fs
                    /\ log' = Append(log, Entry("error", "Error cloning branch"))
                    /\ outcomes' = Append(outcomes, "Failed")
                    /\ bPromise' = CatchBranch
                    /\ pc' = "b_await"
  /\ UNCHANGED <<gitCwd, runs, args, remoteText, remotes, names, todo, idx, promise>>

\* Mutant: init runs in whatever directory the shared git object was left in.
BranchInitNoCwd(ok) ==
  /\ pc = "b_init"
  /\ UNCHANGED pure
  /\ gitCwd' = gitCwd
  /\ calls' = Append(calls, Call("init", gitCwd', att, ok))
  /\ hist' = [hist EXCEPT ![gitCwd'] = Append(@, Step("init", ok))]
  /\ IF ok
     THEN /\ fs' = [fs EXCEPT ![gitCwd'] = GitInit(fs[gitCwd'])]
          /\ pc' = "b_show"
          /\ UNCHANGED <<outcomes, log, bPromise>>
     ELSE /\ fs' = fs
          /\ BranchFails
  /\ UNCHANGED <<runs, args, remoteText, remotes, names, todo, idx, promise,
                 attempts>>

\* Line 45: await git.cwd(branchFolderPath).init()
BranchInit(ok) ==
  /\ pc = "b_init"
  /\ UNCHANGED pure
  /\ gitCwd' = branchFolderPath
  /\ calls' = Append(calls, Call("init", gitCwd', att, ok))
  /\ hist' = [hist EXCEPT ![gitCwd'] = Append(@, Step("init", ok))]
  /\ IF ok
     THEN /\ fs' = [fs EXCEPT ![gitCwd'] = GitInit(fs[gitCwd'])]
          /\ pc' = "b_show"
          /\ UNCHANGED <<outcomes, log, bPromise>>
     ELSE /\ fs' = fs
          /\ BranchFails
  /\ UNCHANGED <<runs, args, remoteText, remotes, names, todo, idx, promise,
                 attempts>>

\* Line 48: const remotes = await git.cwd(branchFolderPath).raw(['remote', 'show'])
BranchRemoteShow(ok) ==
  /\ pc = "b_show"
  /\ UNCHANGED pure
  /\ gitCwd' = branchFolderPath
  /\ calls' = Append(calls, Call("remote show", gitCwd', att, ok))
  /\ hist' = [hist EXCEPT ![gitCwd'] = Append(@, Step("remote show", ok))]
  /\ IF ok
     THEN /\ remotes' = RemoteShow(fs[gitCwd'].remotes)
          /\ pc' = "b_cfg"
          /\ UNCHANGED <<outcomes, log, bPromise>>
     ELSE /\ remotes' = remotes
          /\ BranchFails
  /\ UNCHANGED <<fs, runs, args, remoteText, names, todo, idx, promise,
                 attempts>>

\* Lines 49-57: set-url when 'origin' is listed, add otherwise
BranchRemoteConfig(ok) ==
  /\ pc = "b_cfg"
  /\ UNCHANGED pure
  /\ gitCwd' = branchFolderPath
  /\ LET f == fs[gitCwd']
         setUrl == OriginListed(remotes)
         can == IF setUrl THEN CanSetUrl(f, Origin) ELSE CanAdd(f, Origin)
         info == Entry("info", IF setUrl THEN "Remote 'origin' exists, updating remote URL"
                                         ELSE "Adding new remote 'origin'")
     IN /\ calls' = Append(calls, Call(IF setUrl THEN "set-url" ELSE "add", gitCwd', att, ok))
        /\ hist' = [hist EXCEPT ![gitCwd'] = Append(@, Step(IF setUrl THEN "set-url" ELSE "add", ok))]
        /\ ok => can
        /\ IF ok
           THEN /\ fs' = [fs EXCEPT ![gitCwd'] =
                            IF setUrl THEN GitSetUrl(f, Origin, args.repoUrl)
                                      ELSE GitAdd(f, Origin, args.repoUrl)]
                /\ log' = Append(log, info)
                /\ pc' = "b_fetch"
                /\ UNCHANGED <<outcomes, bPromise>>
           ELSE /\ fs' = fs
                /\ outcomes' = [outcomes EXCEPT ![Len(outcomes)] = "Failed"]
                /\ log' = log \o <<info, Entry("error", "Error cloning branch")>>
                /\ bPromise' = CatchBranch
                /\ pc' = "b_await"
  /\ UNCHANGED <<runs, args, remoteText, remotes, names, todo, idx, promise,
                 attempts>>

\* Mutant: a failed fetch is ignored and the checkout follows.
BranchFetchIgnoresFailure(ok) ==
  /\ pc = "b_fetch"
  /\ UNCHANGED pure
  /\ gitCwd' = branchFolderPath
  /\ calls' = Append(calls, Call("fetch", gitCwd', att, ok))
  /\ hist' = [hist EXCEPT ![gitCwd'] = Append(@, Step("fetch", ok))]
  /\ ok => CanFetch(fs[gitCwd'])
  /\ fs' = IF ok THEN [fs EXCEPT ![gitCwd'] = GitFetch(fs[gitCwd'])] ELSE fs
  /\ log' = Append(log, Entry("info", "Checking out branch"))
  /\ pc' = "b_checkout"
  /\ UNCHANGED <<outcomes, bPromise>>
  /\ UNCHANGED <<runs, args, remoteText, remotes, names, todo, idx, promise,
                 attempts>>

\* Line 60: await git.cwd(branchFolderPath).fetch()
BranchFetch(ok) ==
  /\ pc = "b_fetch"
  /\ UNCHANGED pure
  /\ gitCwd' = branchFolderPath
  /\ calls' = Append(calls, Call("fetch", gitCwd', att, ok))
  /\ hist' = [hist EXCEPT ![gitCwd'] = Append(@, Step("fetch", ok))]
  /\ ok => CanFetch(fs[gitCwd'])
  /\ IF ok
     THEN /\ fs' = [fs EXCEPT ![gitCwd'] = GitFetch(fs[gitCwd'])]
          /\ log' = Append(log, Entry("info", "Checking out branch"))
          /\ pc' = "b_checkout"
          /\ UNCHANGED <<outcomes, bPromise>>
     ELSE /\ fs' = fs
          /\ BranchFails
  /\ UNCHANGED <<runs, args, remoteText, remotes, names, todo, idx, promise,
                 attempts>>

\* Lines 64-66: await git.cwd(branchFolderPath).checkout([branchName])
BranchCheckout(ok) ==
  /\ pc = "b_checkout"
  /\ UNCHANGED pure
  /\ gitCwd' = branchFolderPath
  /\ calls' = Append(calls, Call("checkout", gitCwd', att, ok))
  /\ hist' = [hist EXCEPT ![gitCwd'] = Append(@, Step("checkout", ok))]
  /\ ok => CanCheckout(fs[gitCwd'], branchName, ParseBranches(remoteText))
  /\ IF ok
     THEN /\ fs' = [fs EXCEPT ![gitCwd'] = GitCheckout(fs[gitCwd'], branchName)]
          /\ log' = Append(log, Entry("info", "Branch has been checked out"))
          /\ outcomes' = [outcomes EXCEPT ![Len(outcomes)] = "Done"]
          /\ bPromise' = "resolved"
          /\ pc' = "b_await"
     ELSE /\ fs' = fs
          /\ BranchFails
  /\ UNCHANGED <<runs, args, remoteText, remotes, names, todo, idx, promise,
                 attempts>>

\* Lines 123-130: the await of cloneBranchToFolder returns (or throws into
\* the catch of cloneRepository); the loop goes on or the function ends.
Resume ==
  /\ pc = "b_await"
  /\ UNCHANGED pure
  /\ IF bPromise = "rejected"
     THEN /\ RepoFails
          /\ UNCHANGED idx
     ELSE IF idx < Len(todo)
     THEN /\ idx' = idx + 1
          /\ pc' = "call"
          /\ UNCHANGED <<log, promise>>
     ELSE /\ promise' = "resolved"
          /\ pc' = "done"
          /\ UNCHANGED <<log, idx>>
  /\ UNCHANGED <<fs, gitCwd, runs, args, remoteText, remotes, names, todo, bPromise,
                 attempts, outcomes, calls, hist>>

Next ==
  \/ \E u \in Urls, a \in BOOLEAN : Start(u, a)
  \/ \E ok \in BOOLEAN : RepoInit(ok)
  \/ \E ok \in BOOLEAN : RepoRemoteShow(ok)
  \/ \E ok \in BOOLEAN : RepoRemoteConfig(ok)
  \/ \E ok \in BOOLEAN : LsRemote(ok)
  \/ CallBranch
  \/ \E ok \in BOOLEAN : BranchInit(ok)
  \/ \E ok \in BOOLEAN : BranchRemoteShow(ok)
  \/ \E ok \in BOOLEAN : BranchRemoteConfig(ok)
  \/ \E ok \in BOOLEAN : BranchFetch(ok)
  \/ \E ok \in BOOLEAN : BranchCheckout(ok)
  \/ Resume

Spec == Init /\ [][Next]_vars

\* Every call that was made returns or throws, and the function then goes
\* on; whether the user starts another run is left open.
Returns ==
  \/ \E ok \in BOOLEAN : RepoInit(ok)
  \/ \E ok \in BOOLEAN : RepoRemoteShow(ok)
  \/ \E ok \in BOOLEAN : RepoRemoteConfig(ok)
  \/ \E ok \in BOOLEAN : LsRemote(ok)
  \/ CallBranch
  \/ \E ok \in BOOLEAN : BranchInit(ok)
  \/ \E ok \in BOOLEAN : BranchRemoteShow(ok)
  \/ \E ok \in BOOLEAN : BranchRemoteConfig(ok)
  \/ \E ok \in BOOLEAN : BranchFetch(ok)
  \/ \E ok \in BOOLEAN : BranchCheckout(ok)
  \/ Resume

LiveSpec == Init /\ [][Next]_vars /\ WF_vars(Returns)

\* ------------------------------------- the two functions on their own
\* sanitizeFolderName and the parse of the listing, applied to inputs drawn
\* from bounded sets; no run of cloneRepository takes place.
NoRun ==
  /\ fs = [p \in Paths |-> Absent]
  /\ gitCwd = NoCwd
  /\ pc = "idle"
  /\ runs = 0
  /\ args = NoArgs
  /\ remoteText = <<>>
  /\ remotes = <<>>
  /\ names = <<>>
  /\ todo = <<>>
  /\ idx = 0
  /\ promise = "none"
  /\ bPromise = "none"
  /\ attempts = <<>>
  /\ outcomes = <<>>
  /\ calls = <<>>
  /\ log = <<>>
  /\ hist = [p \in Paths |-> <<>>]

main == <<fs, gitCwd, pc, runs, args, remoteText, remotes, names, todo, idx,
          promise, bPromise, attempts, outcomes, calls, log, hist>>

\* Branch names: every character the class of line 24 names, a letter and
\* the underscore.
NameChars == {"<", ">", ":", "\"", "/", "\\", "|", "?", "*", "a", "_"}
NamesUpTo(n) == UNION {[1..k -> NameChars] : k \in 0..n}

\* Listings: each line is a branch, a tag, an empty line or a line without
\* a tab; the last line ends with a newline or not.
RefNames == {<<"m">>, <<"f", "/", "a">>, RefsHeads \o <<"x">>}
LineKinds ==
  {[kind |-> "head", name |-> n] : n \in RefNames}
  \cup {[kind |-> "tag", name |-> n] : n \in RefNames}
  \cup {[kind |-> "blank", name |-> <<>>], [kind |-> "notab", name |-> <<>>]}
ListingsUpTo(n) ==
  {[lines |-> l, newline |-> e] :
     l \in UNION {[1..k -> LineKinds] : k \in 0..n}, e \in BOOLEAN}

RenderLine(d) ==
  IF d.kind = "head" THEN Hash \o <<TAB>> \o RefsHeads \o d.name
  ELSE IF d.kind = "tag" THEN Hash \o <<TAB>> \o RefsTags \o d.name
  ELSE IF d.kind = "notab" THEN Hash
  ELSE <<>>

RECURSIVE RenderLines(_)
RenderLines(l) ==
  IF Len(l) = 0 THEN <<>>
  ELSE IF Len(l) = 1 THEN RenderLine(l[1])
  ELSE RenderLine(l[1]) \o <<NL>> \o RenderLines(Tail(l))

Render(g) == RenderLines(g.lines) \o (IF g.newline /\ Len(g.lines) > 0 THEN <<NL>> ELSE <<>>)

PureInit ==
  /\ NoRun
  /\ applied = FALSE
  /\ output = <<>>
  /\ \/ /\ fn = "sanitize"
        /\ given \in NamesUpTo(MaxNameLen)
        /\ input = given
     \/ /\ fn = "parse"
        /\ given \in ListingsUpTo(MaxLines)
        /\ input = Render(given)

\* const sanitizedBranchName = sanitizeFolderName(branchName)
ApplySanitize ==
  /\ fn = "sanitize"
  /\ ~applied
  /\ output' = sanitizeFolderName(input)
  /\ applied' = TRUE
  /\ UNCHANGED <<main, fn, given, input>>

\* const remoteBranchNames = remoteBranches.split('\n').map(...).filter(...).map(...)
ApplyParse ==
  /\ fn = "parse"
  /\ ~applied
  /\ output' = ParseBranches(input)
  /\ applied' = TRUE
  /\ UNCHANGED <<main, fn, given, input>>

PureNext == ApplySanitize \/ ApplyParse

PureSpec == PureInit /\ [][PureNext]_vars

\* ============================================================ the claims
Terminal == {"Skipped", "Done", "Failed"}
TargetOf(b) == PathJoin(RepoPath, sanitizeFolderName(b))
CallsOf(n) == {k \in 1..Len(calls) : calls[k].att = n}
Errors == {k \in 1..Len(log) : log[k].level = "error"}
Warnings == {k \in 1..Len(log) : log[k].level = "warn"}
FailedCalls == {k \in 1..Len(calls) : ~calls[k].ok}
StepsOf(p, ops) == {k \in 1..Len(hist[p]) : hist[p][k].op \in ops}
OkStepsOf(p, ops) == {k \in StepsOf(p, ops) : hist[p][k].ok}
Materializing == pc \in {"b_init", "b_show", "b_cfg", "b_fetch", "b_checkout"}

\* C1: with cloneAllBranches = false and a BranchSet that holds neither 'main'
\* nor 'master', cloneBranchToFolder is not called, no branch folder is
\* created and no per-branch backend call is made.
C1_NothingWithoutMainOrMaster ==
  (/\ ~args.cloneAllBranches
   /\ names # <<>>
   /\ ~ArrayIncludes(names, Main)
   /\ ~ArrayIncludes(names, Master))
  => (attempts = <<>> /\ \A k \in 1..Len(calls) : calls[k].att = 0)

\* C2: with cloneAllBranches = false and a BranchSet that holds 'main' or
\* 'master', exactly one materialization is attempted: 'main' when the set
\* holds it (also beside 'master'), else 'master'; every per-branch call acts
\* on that branch's folder and on no other.
C2_OnlyMainElseMaster ==
  (/\ ~args.cloneAllBranches
   /\ names # <<>>
   /\ (ArrayIncludes(names, Main) \/ ArrayIncludes(names, Master)))
  => LET want == IF ArrayIncludes(names, Main) THEN Main ELSE Master
     IN /\ attempts = IF pc = "call" THEN <<>> ELSE <<want>>
        /\ \A k \in 1..Len(calls) :
             calls[k].att > 0 => calls[k].att = 1 /\ calls[k].path = TargetOf(want)

C2_Witness ==
  /\ pc = "done"
  /\ ~args.cloneAllBranches
  /\ ArrayIncludes(names, Main) /\ ArrayIncludes(names, Master)
  /\ attempts = <<Main>>
  /\ outcomes = <<"Done">>

\* C3: with cloneAllBranches = true and a BranchSet of N >= 1 branches, the
\* materialization attempts are the branches of the set, one each, in the
\* remote's order, and the finished run has made all N, however each ended.
C3_AllBranchesInOrder ==
  (args.cloneAllBranches /\ names # <<>>)
  => /\ Len(attempts) <= Len(names)
     /\ attempts = SubSeq(names, 1, Len(attempts))
     /\ Len(outcomes) = Len(attempts)
     /\ pc = "done" => attempts = names

C3_Witness ==
  /\ pc = "done"
  /\ args.cloneAllBranches
  /\ Len(names) = 3
  /\ attempts = names
  /\ outcomes = <<"Failed", "Done", "Skipped">>

\* C4: with cloneAllBranches = true and a BranchSet of pairwise distinct
\* names, no two attempts of the run target the same path.
C4_DistinctTargetPaths ==
  (/\ args.cloneAllBranches
   /\ \A i, j \in 1..Len(names) : i # j => names[i] # names[j])
  => \A i, j \in 1..Len(attempts) :
       i # j => TargetOf(attempts[i]) # TargetOf(attempts[j])

\* C5: a call of cloneBranchToFolder whose target path exists makes no
\* backend call and no file system write and leaves every folder, whatever
\* it holds, as it was; the attempt ends Skipped.
C5_SkipInvariant ==
  /\ [](\A i \in 1..Len(outcomes) : outcomes[i] = "Skipped" => CallsOf(i) = {})
  /\ [][(pc = "call" /\ fs[TargetOf(todo[idx])].exists)
        => /\ fs' = fs
           /\ calls' = calls
           /\ hist' = hist
           /\ gitCwd' = gitCwd
           /\ outcomes' = Append(outcomes, "Skipped")
           /\ bPromise' = "resolved"]_vars

C5_Witness ==
  /\ pc = "b_await"
  /\ outcomes # <<>>
  /\ outcomes[Len(outcomes)] = "Skipped"
  /\ fs[TargetOf(attempts[Len(attempts)])].head = Dev
  /\ attempts[Len(attempts)] # Dev

\* C6 as stated: over all runs, the sequence create, init, remote
\* configuration, fetch, checkout is started at most once for a target path
\* (here for the target path of 'main', which no other branch name shares:
\* line 40 is reached at most once for it).
C6_SequenceStartedAtMostOnce ==
  Cardinality(StepsOf(TargetOf(Main), {"mkdir"})) <= 1

\* C6 amended: over all runs, a target path's directory is created at most
\* once and init, remote show, remote add/set-url, fetch and checkout each
\* run at most once on it; an existing branch folder is never deleted, and
\* it changes only in the steps of the materialization that created it.
C6_AtMostOnceOnceCreated ==
  /\ [](\A p \in BranchPaths :
          /\ Cardinality(OkStepsOf(p, {"mkdir"})) <= 1
          /\ \A op \in {"init", "remote show", "fetch", "checkout"} :
               Cardinality(StepsOf(p, {op})) <= 1
          /\ Cardinality(StepsOf(p, {"add", "set-url"})) <= 1)
  /\ [][\A p \in BranchPaths :
          fs[p].exists
          => /\ fs'[p].exists
             /\ fs'[p] # fs[p]
                => /\ Materializing
                   /\ p = TargetOf(todo[idx])
                   /\ outcomes[Len(outcomes)] = "Running"]_vars

C6_Witness ==
  /\ runs = 2
  /\ pc = "done"
  /\ \E i \in 1..Len(attempts) :
       /\ outcomes[i] = "Skipped"
       /\ Cardinality(OkStepsOf(TargetOf(attempts[i]), {"mkdir"})) = 1
       /\ Cardinality(StepsOf(TargetOf(attempts[i]), {"init"})) = 1
       /\ ~fs[TargetOf(attempts[i])].fetched

\* C7: with cloneAllBranches = true, a branch whose materialization fails
\* does not stop the loop: the finished run has attempted every branch of
\* the set, each attempt is Skipped, Done or Failed, and every branch that
\* ended Done still has its checkout and its remote.
C7_IsolatedFailure ==
  (args.cloneAllBranches /\ names # <<>>)
  => /\ pc = "done" => /\ attempts = names
                       /\ \A i \in 1..Len(outcomes) : outcomes[i] \in Terminal
     /\ \A i \in 1..Len(outcomes) :
          outcomes[i] = "Done"
          => /\ fs[TargetOf(attempts[i])].head = attempts[i]
             /\ fs[TargetOf(attempts[i])].remotes = {[name |-> Origin, url |-> args.repoUrl]}

C7_Witness ==
  /\ pc = "done"
  /\ args.cloneAllBranches
  /\ outcomes = <<"Done", "Failed", "Done">>
  /\ \E k \in CallsOf(2) : calls[k].op = "checkout" /\ ~calls[k].ok

\* C8: neither promise is ever rejected: a settled cloneBranchToFolder and a
\* finished cloneRepository are resolved, failed or not, and every failed
\* file system or backend call has its one error entry in the log.
C8_NoErrorEscapes ==
  /\ promise # "rejected"
  /\ bPromise # "rejected"
  /\ pc = "done" => promise = "resolved"
  /\ pc = "b_await" => bPromise = "resolved"
  /\ Cardinality(Errors) = Cardinality(FailedCalls)

C8_Witness ==
  /\ pc = "done"
  /\ promise = "resolved"
  /\ \E k \in CallsOf(0) : calls[k].op = "ls-remote" /\ ~calls[k].ok
  /\ Cardinality(Errors) = 1

\* C9: when ls-remote returns a text without any refs/heads/ entry (the
\* empty text, or tags only), the run ends at once with one warning, no
\* error, no materialization attempt and a resolved promise, whatever
\* cloneAllBranches is.
C9_SoftFailOnEmptyListing ==
  (/\ \E k \in CallsOf(0) : calls[k].op = "ls-remote" /\ calls[k].ok
   /\ ~Includes(remoteText, RefsHeads))
  => /\ pc = "done"
     /\ promise = "resolved"
     /\ attempts = <<>>
     /\ CallsOf(1) = {}
     /\ Errors = {}
     /\ Cardinality(Warnings) = 1
     /\ log[Len(log)].level = "warn"

C9_Witness ==
  /\ pc = "done"
  /\ remoteText = Tag_(TagV1)
  /\ ~args.cloneAllBranches
  /\ \E k \in CallsOf(0) : calls[k].op = "ls-remote" /\ calls[k].ok
  /\ Warnings # {}

\* C10: the repository-level remote configuration, run on a repository
\* folder, does not fail and leaves exactly one remote named 'origin', which
\* points at the URL of the call.
C10_RepoRemoteSetupIdempotent ==
  /\ pc = "r_cfg"
     => IF Includes(remotes, Origin)
        THEN CanSetUrl(fs[RepoPath], Origin)
        ELSE CanAdd(fs[RepoPath], Origin)
  /\ pc = "r_ls"
     => {r \in fs[RepoPath].remotes : r.name = Origin}
          = {[name |-> Origin, url |-> args.repoUrl]}

\* C11: sanitizeFolderName returns a string of the same length in which
\* each of < > : " / \ | ? * is replaced by '_' and every other character
\* is kept in place; the result holds none of them, and a name without them
\* is returned as it is.
C11_SanitizationCorrect ==
  (fn = "sanitize" /\ applied)
  => LET bad == {"<", ">", ":", "\"", "/", "\\", "|", "?", "*"}
     IN /\ Len(output) = Len(input)
        /\ \A i \in 1..Len(input) :
             output[i] = IF input[i] \in bad THEN "_" ELSE input[i]
        /\ \A i \in 1..Len(output) : output[i] \notin bad
        /\ (\A i \in 1..Len(input) : input[i] \notin bad) => output = input

C11_Witness ==
  /\ fn = "sanitize"
  /\ applied
  /\ input = <<"\\", "a">>
  /\ output = <<"_", "a">>

\* C12: the BranchSet parsed from a listing is the sequence of the refs that
\* start with 'refs/heads/', that prefix stripped once, in the order of the
\* lines; tags, empty lines and lines without a tab contribute nothing.
C12_ParseKeepsHeadsInOrder ==
  (fn = "parse" /\ applied)
  => LET heads == SelectSeq(given.lines, LAMBDA d : d.kind = "head")
     IN output = [i \in 1..Len(heads) |-> heads[i].name]

C12_Witness ==
  /\ fn = "parse"
  /\ applied
  /\ Len(given.lines) = 2
  /\ given.lines[1] = [kind |-> "tag", name |-> RefsHeads \o <<"x">>]
  /\ given.lines[2] = [kind |-> "head", name |-> RefsHeads \o <<"x">>]
  /\ output = <<RefsHeads \o <<"x">>>>

\* C13: every branch folder a run brings to Done lies at
\* <repoFolder>/<sanitized branchName> (all the calls of its materialization
\* were made there), has exactly one remote, 'origin', with the URL of the
\* run, and has the original, unsanitized branchName checked out.
C13_DonePostcondition ==
  \A i \in 1..Len(outcomes) :
    outcomes[i] = "Done"
    => LET p == PathJoin(RepoPath, sanitizeFolderName(attempts[i]))
       IN /\ \A k \in CallsOf(i) : calls[k].path = p
          /\ \E k \in CallsOf(i) : calls[k].op = "checkout" /\ calls[k].ok
          /\ fs[p].exists /\ fs[p].git /\ fs[p].fetched
          /\ fs[p].remotes = {[name |-> Origin, url |-> args.repoUrl]}
          /\ fs[p].head = attempts[i]

C13_Witness ==
  \E i \in 1..Len(outcomes) :
    /\ outcomes[i] = "Done"
    /\ attempts[i] = FeatSlash
    /\ fs[PathJoin(RepoPath, FeatUnder)].head = FeatSlash

\* C14: in every materialization the steps occur in the order create
\* directory, init, remote configuration (remote show, then add or
\* set-url), fetch, checkout, each at most once; a step is made only when
\* every earlier one succeeded; the branch is Failed exactly when its last
\* step failed, nothing is undone, and it is Done only with a successful
\* checkout after all the other steps.
StepRank(op) ==
  CASE op = "mkdir" -> 1
    [] op = "init" -> 2
    [] op = "remote show" -> 3
    [] op \in {"add", "set-url"} -> 4
    [] op = "fetch" -> 5
    [] op = "checkout" -> 6

C14_StepsInOrder ==
  \A i \in 1..Len(outcomes) :
    LET mine == CallsOf(i)
    IN /\ \A k \in mine :
            /\ StepRank(calls[k].op) = Cardinality({j \in mine : j <= k})
            /\ \A j \in mine : j < k => calls[j].ok
            /\ (calls[k].op = "mkdir" /\ calls[k].ok) => fs[calls[k].path].exists
       /\ outcomes[i] = "Failed" <=> \E k \in mine : ~calls[k].ok
       /\ outcomes[i] = "Done"
            <=> \E k \in mine : calls[k].op = "checkout" /\ calls[k].ok
       /\ outcomes[i] = "Done" => Cardinality(mine) = 6
       /\ outcomes[i] = "Skipped" => mine = {}

C14_Witness ==
  /\ pc = "done"
  /\ \E i \in 1..Len(outcomes) :
       /\ outcomes[i] = "Failed"
       /\ Cardinality(CallsOf(i)) = 5
       /\ \E k \in CallsOf(i) : calls[k].op = "fetch" /\ ~calls[k].ok
  /\ \E i \in 1..Len(outcomes) : outcomes[i] = "Done"

\* C15: at most one materialization is in a non-terminal state, and it is
\* the latest one; the calls of the materializations are not interleaved;
\* no materialization has begun (existence check or backend call) unless
\* ls-remote has returned; and a materialization begins only in a state
\* where every earlier one is Done, Skipped or Failed.
C15_AtMostOneRunning ==
  /\ Len(attempts) = Len(outcomes)
  /\ \A i \in 1..Len(outcomes) :
       outcomes[i] \notin Terminal => i = Len(outcomes) /\ Materializing
  /\ \A j, k \in 1..Len(calls) : j < k => calls[j].att <= calls[k].att
  /\ \A k \in 1..Len(calls) : calls[k].att \in 0..Len(attempts)
  /\ (attempts # <<>> \/ pc \in {"call", "b_await"} \/ Materializing)
       => \E k \in 1..Len(calls) :
            /\ calls[k].op = "ls-remote" /\ calls[k].ok
            /\ \A j \in 1..Len(calls) : calls[j].att > 0 => k < j

C15_BeginsAfterTerminal ==
  Len(attempts') > Len(attempts)
    => /\ \A i \in 1..Len(outcomes) : outcomes[i] \in Terminal
       /\ \E k \in 1..Len(calls) : calls[k].op = "ls-remote" /\ calls[k].ok

C15_StrictSequencing == []C15_AtMostOneRunning /\ [][C15_BeginsAfterTerminal]_vars

C15_Witness ==
  /\ Len(outcomes) = 2
  /\ outcomes[1] = "Failed"
  /\ outcomes[2] = "Running"
  /\ pc = "b_fetch"

\* C16: once a step after the creation of the directory (init, remote
\* show, add or set-url, fetch, checkout) has failed on a target path, in
\* this run or an earlier one, the directory stays in place with no
\* checkout, no file system or backend call is ever made on it again, every
\* later materialization with that target ends Skipped without a call, and
\* no branch with that target is ever Done.
FailedAfterCreate(p) ==
  \E k \in StepsOf(p, {"init", "remote show", "add", "set-url", "fetch", "checkout"}) :
    ~hist[p][k].ok

C16_Blocked ==
  \A p \in BranchPaths :
    FailedAfterCreate(p)
    => /\ fs[p].exists
       /\ fs[p].head = NoHead
       /\ ~hist[p][Len(hist[p])].ok
       /\ \A i \in 1..Len(outcomes) :
            TargetOf(attempts[i]) = p
            => /\ outcomes[i] \in {"Failed", "Skipped"}
               /\ outcomes[i] = "Skipped" => CallsOf(i) = {}

C16_StaysBlocked ==
  \A p \in BranchPaths :
    FailedAfterCreate(p)
    => /\ fs'[p] = fs[p]
       /\ hist'[p] = hist[p]
       /\ (Len(attempts') > Len(attempts) /\ TargetOf(attempts'[Len(attempts')]) = p)
            => /\ outcomes'[Len(outcomes')] = "Skipped"
               /\ calls' = calls

C16_NoCleanupBlocksRetry == []C16_Blocked /\ [][C16_StaysBlocked]_vars

C16_Witness ==
  /\ runs = 2
  /\ pc = "done"
  /\ attempts = <<Main>>
  /\ outcomes = <<"Skipped">>
  /\ calls # <<>>
  /\ Len(hist[TargetOf(Main)]) = 6
  /\ hist[TargetOf(Main)][6] = Step("checkout", FALSE)
  /\ fs[TargetOf(Main)].fetched

\* C17: when init, remote show, remote add or set-url, or ls-remote fails
\* on the repository folder, that call is the last of the run: the run is
\* complete with its promise resolved and one error in the log, no branch
\* materialization was attempted, and no call was made on any branch
\* folder (none was created).
C17_RepoFailureEndsRun ==
  \A k \in CallsOf(0) :
    (calls[k].op \in {"init", "remote show", "add", "set-url", "ls-remote"} /\ ~calls[k].ok)
    => /\ pc = "done"
       /\ promise = "resolved"
       /\ k = Len(calls)
       /\ Cardinality(Errors) = 1
       /\ log[Len(log)] = Entry("error", "Error cloning repository")
       /\ attempts = <<>>
       /\ outcomes = <<>>
       /\ \A j \in 1..Len(calls) : calls[j].att = 0 /\ calls[j].path = RepoPath

C17_Witness ==
  /\ pc = "done"
  /\ Includes(remoteText, RefsHeads \o Main)
  /\ \E k \in CallsOf(0) : calls[k].op \in {"add", "set-url"} /\ ~calls[k].ok
  /\ \A p \in BranchPaths : ~fs[p].exists

\* C18: when every call returns or throws, a run that has started is
\* eventually complete, and in a complete run every selected branch has
\* been attempted once and is Skipped, Done or Failed.
C18_AllTerminalAtCompletion ==
  pc = "done"
  => /\ attempts = todo
     /\ Len(outcomes) = Len(todo)
     /\ \A i \in 1..Len(outcomes) : outcomes[i] \in Terminal

C18_Termination ==
  /\ []C18_AllTerminalAtCompletion
  /\ (pc \notin {"idle", "done"}) ~> (pc = "done")

C18_Witness ==
  /\ pc = "done"
  /\ Len(todo) = 3
  /\ attempts = todo
  /\ \E i \in 1..3 : outcomes[i] = "Skipped"
  /\ \E i \in 1..3 : outcomes[i] = "Failed"

\* C19: every file system and backend call of a materialization is made on
\* the target path of its own branch, whatever directory the shared git
\* object was left in by the repository-level steps or by an earlier
\* branch; a step of a materialization changes no other folder, neither a
\* sibling branch folder nor the repository folder.
C19_CallsOnOwnTarget ==
  /\ \A k \in 1..Len(calls) :
       calls[k].att > 0 => calls[k].path = TargetOf(attempts[calls[k].att])
  /\ Materializing /\ pc # "b_init" => gitCwd = TargetOf(todo[idx])

C19_OnlyOwnFolderChanges ==
  (pc = "call" \/ Materializing)
  => /\ \A p \in Paths : p # TargetOf(todo[idx]) => fs'[p] = fs[p] /\ hist'[p] = hist[p]
     /\ Len(calls') > Len(calls) => calls'[Len(calls')].path = TargetOf(todo[idx])
     /\ Materializing => gitCwd' = TargetOf(todo[idx])

C19_NoCrossIterationState == []C19_CallsOnOwnTarget /\ [][C19_OnlyOwnFolderChanges]_vars

C19_Witness ==
  /\ Len(attempts) = 2
  /\ pc = "b_show"
  /\ outcomes[1] = "Done"
  /\ TargetOf(attempts[1]) # TargetOf(attempts[2])
  /\ gitCwd = TargetOf(attempts[2])
  /\ fs[TargetOf(attempts[2])].git
  /\ fs[TargetOf(attempts[1])].head = attempts[1]

\* Two attempts of one run, the earlier at i and the later at j, for
\* distinct branch names with the same target path, cloneAllBranches being
\* true and the folder being absent when the earlier one checked for it.
Collide(i, j) ==
  /\ args.cloneAllBranches
  /\ i < j
  /\ attempts[i] # attempts[j]
  /\ TargetOf(attempts[i]) = TargetOf(attempts[j])
  /\ CallsOf(i) # {}

MkdirOk(i) == \E k \in CallsOf(i) : calls[k].op = "mkdir" /\ calls[k].ok

\* C20 as stated: of two colliding branches the earlier is the one that is
\* materialized, the later is Skipped without a call, and the folder holds
\* no checkout but that of the earlier branch.
C20_FirstWins ==
  \A i, j \in 1..Len(outcomes) :
    Collide(i, j)
    => /\ outcomes[j] = "Skipped"
       /\ CallsOf(j) = {}
       /\ fs[TargetOf(attempts[i])].head \in {NoHead, attempts[i]}

\* C20 amended: of two colliding branches, when the directory creation of
\* the earlier one succeeded the later one is Skipped without a call and
\* the folder holds the checkout of the earlier branch if that one is Done
\* and no checkout otherwise; when the directory creation of the earlier
\* one failed, the later one runs the materialization itself and a checkout
\* in the folder is its own. A checkout in a branch folder is never
\* replaced.
C20_FirstCreatedWins ==
  \A i, j \in 1..Len(outcomes) :
    Collide(i, j)
    => LET f == fs[TargetOf(attempts[i])]
       IN IF MkdirOk(i)
          THEN /\ outcomes[j] = "Skipped"
               /\ CallsOf(j) = {}
               /\ f.exists
               /\ f.head = IF outcomes[i] = "Done" THEN attempts[i] ELSE NoHead
          ELSE /\ outcomes[i] = "Failed"
               /\ CallsOf(j) # {}
               /\ f.head = IF outcomes[j] = "Done" THEN attempts[j] ELSE NoHead

C20_NeverOverwritten ==
  \A p \in BranchPaths : fs[p].head # NoHead => fs'[p] = fs[p]

C20_CollisionFirstCreatedWins ==
  []C20_FirstCreatedWins /\ [][C20_NeverOverwritten]_vars

C20_Witness ==
  /\ pc = "done"
  /\ attempts = <<FeatSlash, FeatUnder>>
  /\ outcomes = <<"Done", "Skipped">>
  /\ fs[TargetOf(FeatSlash)].head = FeatSlash

====
